---- MODULE Spec2Model ----
(***************************************************************************)
(* A model of stock_analysis.py: one batch run reads the price-list PDFs   *)
(* of ./stock_files/, accumulates their table rows, cleans them into a     *)
(* (Symbol, Close, Volume, Date) frame, derives Day / Close_pct_change /   *)
(* Growth / Cumulative_Return per symbol, and writes output.csv and        *)
(* stock_history.csv.                                                      *)
(*                                                                         *)
(* Texts are sequences of one-character strings.  Numbers are exact        *)
(* extended rationals <<n, d>> (d >= 0, lowest terms): <<0, 0>> is NaN,    *)
(* <<1, 0>> is +inf and <<-1, 0>> is -inf, so that the IEEE outcomes of    *)
(* x/0, 0/0 and 0*inf are kept; rounding of float64 is not modelled.       *)
(***************************************************************************)
EXTENDS Integers, Sequences, FiniteSets, TLC

VARIABLES
    pc,          \* where the script is, or how it ended
    run,         \* how many times the script has been started
    remaining,   \* entries of os.listdir(data_folder) not yet visited
    docs,        \* the entries visited in this run: name and pages
    all_data,    \* rows accumulated from the documents
    df,          \* the frame: raw, then cleaned, then derived
    output_csv,  \* the file output.csv
    history,     \* the file stock_history.csv
    before       \* both files as they were when this run started

vars == <<pc, run, remaining, docs, all_data, df, output_csv, history, before>>

(***************************************************************************)
(* Bounds of the model.                                                    *)
(***************************************************************************)
MaxFiles == 2
MaxPages == 2
MaxRows == 1
MaxRuns == 3

(***************************************************************************)
(* Texts.                                                                  *)
(***************************************************************************)
Alphabet ==
    <<" ", "%", ",", "-", ".", "/", "0", "1", "2", "3", "4", "5", "6", "7", "8", "9",
      "A", "B", "C", "D", "E", "F", "G", "H", "I", "J", "K", "L", "M", "N", "O", "P",
      "Q", "R", "S", "T", "U", "V", "W", "X", "Y", "Z", "_", "e", "n", "o">>

Ord(c) == CHOOSE i \in 1..Len(Alphabet) : Alphabet[i] = c

Digits == {"0", "1", "2", "3", "4", "5", "6", "7", "8", "9"}

DigitVal(c) == Ord(c) - Ord("0")

IsSpace(c) == c = " "

\* Python's str < str: lexicographic by code point.
RECURSIVE StrLess(_, _)
StrLess(s, t) ==
    IF t = <<>> THEN FALSE
    ELSE IF s = <<>> THEN TRUE
    ELSE IF Head(s) # Head(t) THEN Ord(Head(s)) < Ord(Head(t))
    ELSE StrLess(Tail(s), Tail(t))

\* str.replace(',', ''): every occurrence of the character is removed.
RECURSIVE RemoveChar(_, _)
RemoveChar(s, c) ==
    IF s = <<>> THEN <<>>
    ELSE IF Head(s) = c THEN RemoveChar(Tail(s), c)
    ELSE <<Head(s)>> \o RemoveChar(Tail(s), c)

\* The regular expression ^\s*$ : empty or all-whitespace.
IsBlank(s) == \A i \in 1..Len(s) : IsSpace(s[i])

RECURSIVE LStrip(_)
LStrip(s) == IF s # <<>> /\ IsSpace(Head(s)) THEN LStrip(Tail(s)) ELSE s

RECURSIVE RStrip(_)
RStrip(s) ==
    IF s # <<>> /\ IsSpace(s[Len(s)]) THEN RStrip(SubSeq(s, 1, Len(s) - 1)) ELSE s

\* A cell pdfplumber found empty is None, not a text.
None == <<"None">>

NoneText == <<"N", "o", "n", "e">>

\* Series.astype(str): None becomes the text "None".
AsTypeStr(c) == IF c = None THEN NoneText ELSE c

(***************************************************************************)
(* Numbers.                                                                *)
(***************************************************************************)
NaN == <<0, 0>>

Abs(x) == IF x < 0 THEN -x ELSE x

Sign(x) == IF x < 0 THEN -1 ELSE IF x = 0 THEN 0 ELSE 1

RECURSIVE Gcd(_, _)
Gcd(a, b) == IF b = 0 THEN a ELSE Gcd(b, a % b)

Norm(n, d) ==
    IF d = 0 THEN <<Sign(n), 0>>
    ELSE LET g == Gcd(Abs(n), Abs(d))
         IN  <<Sign(d) * (n \div g), Abs(d) \div g>>

Num(k) == <<k, 1>>

IsNaN(x) == x = NaN

Mul(x, y) == Norm(x[1] * y[1], x[2] * y[2])

Div(x, y) ==
    IF y[2] = 0 /\ x[2] = 0 THEN NaN
    ELSE Norm(x[1] * y[2], x[2] * y[1])

Add(x, y) ==
    IF x[2] = 0 /\ y[2] = 0
    THEN (IF x[1] = y[1] THEN x ELSE NaN)
    ELSE Norm(x[1] * y[2] + y[1] * x[2], x[2] * y[2])

Sub(x, y) == Add(x, <<-y[1], y[2]>>)

RECURSIVE Pow10(_)
Pow10(k) == IF k = 0 THEN 1 ELSE 10 * Pow10(k - 1)

RECURSIVE DigitsVal(_)
DigitsVal(s) ==
    IF s = <<>> THEN 0 ELSE 10 * DigitsVal(SubSeq(s, 1, Len(s) - 1)) + DigitVal(s[Len(s)])

AllDigits(s) == \A i \in 1..Len(s) : s[i] \in Digits

\* An unsigned decimal literal: digits, at most one point, at least one digit.
ParseUnsigned(s) ==
    LET dots == {i \in 1..Len(s) : s[i] = "."}
    IN  IF dots = {}
        THEN (IF s # <<>> /\ AllDigits(s) THEN Num(DigitsVal(s)) ELSE NaN)
        ELSE IF Cardinality(dots) > 1 THEN NaN
        ELSE LET p == CHOOSE i \in dots : TRUE
                 ip == SubSeq(s, 1, p - 1)
                 fp == SubSeq(s, p + 1, Len(s))
             IN  IF AllDigits(ip) /\ AllDigits(fp) /\ Len(ip) + Len(fp) > 0
                 THEN Norm(DigitsVal(ip) * Pow10(Len(fp)) + DigitsVal(fp), Pow10(Len(fp)))
                 ELSE NaN

\* pd.to_numeric(..., errors='coerce') of one text: surrounding whitespace is
\* skipped, one sign is accepted, anything else yields NaN.
ToNumeric(c) ==
    IF c = None THEN NaN
    ELSE LET s == RStrip(LStrip(c))
         IN  IF s = <<>> THEN NaN
             ELSE IF Head(s) = "-"
                  THEN LET u == ParseUnsigned(Tail(s)) IN <<-u[1], u[2]>>
                  ELSE ParseUnsigned(s)

(***************************************************************************)
(* File names.  A name is a sequence of tokens; the tokens the script      *)
(* looks for ("DAILY_PRICE_LIST", ".pdf", "_") never overlap, so           *)
(* str.replace and str.lstrip act token by token.                          *)
(***************************************************************************)
MonthNames ==
    <<"January", "February", "March", "April", "May", "June", "July", "August",
      "September", "October", "November", "December">>

DayNumerals ==
    <<"1", "2", "3", "4", "5", "6", "7", "8", "9", "10", "11", "12", "13", "14", "15",
      "16", "17", "18", "19", "20", "21", "22", "23", "24", "25", "26", "27", "28",
      "29", "30", "31">>

\* The four-digit year numerals of the modelled names (%Y needs four digits).
YearNumerals == ("2023" :> 2023) @@ ("2024" :> 2024)

IndexOf(seq, x) == CHOOSE i \in 1..Len(seq) : seq[i] = x

InSeq(seq, x) == \E i \in 1..Len(seq) : seq[i] = x

IsLeap(y) == (y % 4 = 0 /\ y % 100 # 0) \/ y % 400 = 0

DaysInMonth(m, y) ==
    IF m = 2 THEN (IF IsLeap(y) THEN 29 ELSE 28)
    ELSE IF m \in {4, 6, 9, 11} THEN 30 ELSE 31

RECURSIVE RemoveToken(_, _)
RemoveToken(name, tok) ==
    IF name = <<>> THEN <<>>
    ELSE IF Head(name) = tok THEN RemoveToken(Tail(name), tok)
    ELSE <<Head(name)>> \o RemoveToken(Tail(name), tok)

RECURSIVE LStripToken(_, _)
LStripToken(name, tok) ==
    IF name # <<>> /\ Head(name) = tok THEN LStripToken(Tail(name), tok) ELSE name

\* file_name.endswith(".pdf")
EndsWithPdf(name) == name # <<>> /\ name[Len(name)] = ".pdf"

\* file_name.replace("DAILY_PRICE_LIST", "").replace(".pdf", "").lstrip("_")
file_date_str(name) ==
    LStripToken(RemoveToken(RemoveToken(name, "DAILY_PRICE_LIST"), ".pdf"), "_")

\* datetime.strptime(s, "%B_%d_%Y") succeeds.
StrptimeOk(s) ==
    /\ Len(s) = 5
    /\ s[2] = "_" /\ s[4] = "_"
    /\ InSeq(MonthNames, s[1])
    /\ InSeq(DayNumerals, s[3])
    /\ s[5] \in DOMAIN YearNumerals
    /\ IndexOf(DayNumerals, s[3]) <= DaysInMonth(IndexOf(MonthNames, s[1]), YearNumerals[s[5]])

DigitChar(k) == Alphabet[Ord("0") + k]

TwoDigits(k) == <<DigitChar(k \div 10), DigitChar(k % 10)>>

\* strptime(...).strftime("%Y-%m-%d"): the ISO text of the date.
file_date(s) ==
    LET y == YearNumerals[s[5]]
    IN  TwoDigits(y \div 100) \o TwoDigits(y % 100) \o <<"-">>
            \o TwoDigits(IndexOf(MonthNames, s[1])) \o <<"-">>
            \o TwoDigits(IndexOf(DayNumerals, s[3]))

(***************************************************************************)
(* Table rows and pages.                                                   *)
(***************************************************************************)
columns ==
    <<"S/N", "Symbol", "P_Close", "Open", "High", "Low", "Close", "Change", "%",
      "Deals", "Volume", "Value", "VWAP", "Date">>

NumColumns == Len(columns)

Col(name) == IndexOf(columns, name)

Marker == <<"N", "I", "G", "E", "R", "I", "A", "N", " ", "E", "X", "C", "H", "A", "N", "G", "E">>

\* A page: no table found, a table (header row first), or extract_table raising.
NoTable == [kind |-> "none", rows |-> <<>>]

Raises == [kind |-> "raise", rows |-> <<>>]

Table(rows) == [kind |-> "table", rows |-> rows]

\* The pages loop of one document: rows read so far, and whether a page raised.
RECURSIVE ReadPages(_, _, _)
ReadPages(pages, date, acc) ==
    IF pages = <<>> THEN [ok |-> TRUE, rows |-> acc]
    ELSE LET page == Head(pages)
         IN  IF page.kind = "raise" THEN [ok |-> FALSE, rows |-> acc]
             ELSE IF page.kind = "table" /\ page.rows # <<>>
                  THEN ReadPages(Tail(pages), date,
                           acc \o [i \in 1..(Len(page.rows) - 1) |->
                                       Append(page.rows[i + 1], date)])
                  ELSE ReadPages(Tail(pages), date, acc)

\* "NIGERIAN EXCHANGE" in row: list membership, some element equals the text.
MarkerInRow(row) == \E i \in 1..Len(row) : row[i] = Marker

NotFooter(row) == ~MarkerInRow(row)

filtered_current_pdf_stock_data(rows) == SelectSeq(rows, NotFooter)

\* Variant: all_data extended with what was read before a page raised.
FileRowsKeepPartial(name, pages) ==
    IF ~EndsWithPdf(name) THEN <<>>
    ELSE IF ~StrptimeOk(file_date_str(name)) THEN <<>>
    ELSE filtered_current_pdf_stock_data(
             ReadPages(pages, file_date(file_date_str(name)), <<>>).rows)

\* What one iteration of the files loop adds to all_data.
FileRows(name, pages) ==
    IF ~EndsWithPdf(name) THEN <<>>
    ELSE IF ~StrptimeOk(file_date_str(name)) THEN <<>>
    ELSE LET got == ReadPages(pages, file_date(file_date_str(name)), <<>>)
         IN  IF got.ok THEN filtered_current_pdf_stock_data(got.rows) ELSE <<>>

(***************************************************************************)
(* The frame: construction, cleaning, derivation.                          *)
(***************************************************************************)
RECURSIVE MaxLen(_)
MaxLen(rows) ==
    IF rows = <<>> THEN 0
    ELSE LET m == MaxLen(Tail(rows))
         IN  IF Len(Head(rows)) > m THEN Len(Head(rows)) ELSE m

\* pd.DataFrame(all_data, columns=columns) raises ValueError unless the longest
\* row has as many cells as there are column names.
FrameFault(rows) == MaxLen(rows) # NumColumns

\* Shorter rows are padded with None on the right.
PadRow(row) == [i \in 1..NumColumns |-> IF i <= Len(row) THEN row[i] ELSE None]

DataFrame(rows) == [i \in 1..Len(rows) |-> PadRow(rows[i])]

NaT == 0

\* pd.to_datetime of a Date cell, the ISO text of file_date or None: the calendar
\* date as the number yyyymmdd, which orders as dates do.
ToDatetime(c) ==
    IF c = None THEN NaT
    ELSE DigitsVal(SubSeq(c, 1, 4)) * 10000 + DigitsVal(SubSeq(c, 6, 7)) * 100
             + DigitsVal(SubSeq(c, 9, 10))

\* Lines 68-76: the four columns, typed.
Typed(row) ==
    [Symbol |-> row[Col("Symbol")],
     Close  |-> ToNumeric(row[Col("Close")]),
     Volume |-> ToNumeric(RemoveChar(AsTypeStr(row[Col("Volume")]), ",")),
     Date   |-> ToDatetime(row[Col("Date")])]

\* Variant: dropna without Volume in its subset.
KeptVolumeUnchecked(r) ==
    /\ r.Symbol # None
    /\ ~IsBlank(r.Symbol)
    /\ ~IsNaN(r.Close)
    /\ r.Date # NaT

\* Line 80: blank texts become NA, then dropna(subset=[Close, Volume, Symbol, Date]).
Kept(r) ==
    /\ r.Symbol # None
    /\ ~IsBlank(r.Symbol)
    /\ ~IsNaN(r.Close)
    /\ ~IsNaN(r.Volume)
    /\ r.Date # NaT

\* Variant: the cleaning followed by drop_duplicates().
RECURSIVE DropDuplicates(_)
DropDuplicates(rows) ==
    IF rows = <<>> THEN <<>>
    ELSE LET init == DropDuplicates(SubSeq(rows, 1, Len(rows) - 1))
             last == rows[Len(rows)]
         IN  IF \E j \in 1..Len(init) : init[j] = last THEN init ELSE Append(init, last)

CleanFrameDropDuplicates(frame) ==
    DropDuplicates(SelectSeq([i \in 1..Len(frame) |-> Typed(frame[i])], Kept))

CleanFrame(frame) == SelectSeq([i \in 1..Len(frame) |-> Typed(frame[i])], Kept)

\* sort_values(by=["Symbol", "Date"]): ascending, stable.
RowLess(a, b) ==
    \/ StrLess(a.Symbol, b.Symbol)
    \/ a.Symbol = b.Symbol /\ a.Date < b.Date

RECURSIVE Insert(_, _)
Insert(sorted, r) ==
    IF sorted = <<>> THEN <<r>>
    ELSE IF RowLess(r, Head(sorted)) THEN <<r>> \o sorted
    ELSE <<Head(sorted)>> \o Insert(Tail(sorted), r)

\* Variant: no sort before the cumcount.
SortValuesOmitted(rows) == rows

RECURSIVE SortValues(_)
SortValues(rows) ==
    IF rows = <<>> THEN <<>>
    ELSE Insert(SortValues(SubSeq(rows, 1, Len(rows) - 1)), rows[Len(rows)])

\* groupby("Symbol"): the rows of row i's group that come before it.
Before(rows, i) == {j \in 1..(i - 1) : rows[j].Symbol = rows[i].Symbol}

Max(S) == CHOOSE x \in S : \A y \in S : y <= x

\* groupby("Symbol").cumcount() + 1
Day(rows, i) == Cardinality(Before(rows, i)) + 1

\* Variant: pct_change over the whole column, not per symbol.
PctChangeUngrouped(rows, i) ==
    IF i = 1 THEN NaN
    ELSE Mul(Sub(Div(rows[i].Close, rows[i - 1].Close), Num(1)), Num(100))

\* groupby("Symbol")["Close"].pct_change() * 100
Close_pct_change(rows, i) ==
    IF Before(rows, i) = {} THEN NaN
    ELSE Mul(Sub(Div(rows[i].Close, rows[Max(Before(rows, i))].Close), Num(1)), Num(100))

\* (Close_pct_change / 100) + 1, then fillna(1) within the group.
Growth(rows, i) ==
    LET g == Add(Div(Close_pct_change(rows, i), Num(100)), Num(1))
    IN  IF IsNaN(g) THEN Num(1) ELSE g

\* Variant: cumprod over the whole column, not per symbol.
RECURSIVE CumProdUngrouped(_, _)
CumProdUngrouped(rows, i) ==
    LET g == Add(Div(Close_pct_change(rows, i), Num(100)), Num(1))
        growth == IF IsNaN(g) THEN Num(1) ELSE g
    IN  IF i = 1 THEN growth ELSE Mul(CumProdUngrouped(rows, i - 1), growth)

\* groupby("Symbol")["Growth"].cumprod()
RECURSIVE CumProd(_, _)
CumProd(rows, i) ==
    IF Before(rows, i) = {} THEN Growth(rows, i)
    ELSE Mul(CumProd(rows, Max(Before(rows, i))), Growth(rows, i))

\* (Cumulative_Return - 1) * 100
Cumulative_Return(rows, i) == Mul(Sub(CumProd(rows, i), Num(1)), Num(100))

\* Lines 87-113 on the cleaned frame.
Derived(clean) ==
    LET rows == SortValues(clean)
    IN  [i \in 1..Len(rows) |->
            [Symbol |-> rows[i].Symbol,
             Close |-> rows[i].Close,
             Volume |-> rows[i].Volume,
             Date |-> rows[i].Date,
             Day |-> Day(rows, i),
             Close_pct_change |-> Close_pct_change(rows, i),
             Growth |-> Growth(rows, i),
             Cumulative_Return |-> Cumulative_Return(rows, i)]]

(***************************************************************************)
(* CSV files.                                                              *)
(***************************************************************************)
CsvColumns ==
    <<"Symbol", "Close", "Volume", "Date", "Day", "Close_pct_change", "Growth",
      "Cumulative_Return">>

NoFile == [exists |-> FALSE, lines |-> <<>>]

HeaderLine == [kind |-> "header", cols |-> CsvColumns]

\* to_csv writes a missing value as an empty field.
CsvField(x) == IF IsNaN(x) THEN <<>> ELSE x

RowLine(r) ==
    [kind |-> "row",
     fields |-> <<r.Symbol, CsvField(r.Close), CsvField(r.Volume), r.Date, r.Day,
                  CsvField(r.Close_pct_change), CsvField(r.Growth),
                  CsvField(r.Cumulative_Return)>>]

RowLines(frame) == [i \in 1..Len(frame) |-> RowLine(frame[i])]

\* df.to_csv(path, mode="w", header=True, index=False)
WriteCsv(frame) == [exists |-> TRUE, lines |-> <<HeaderLine>> \o RowLines(frame)]

\* df.to_csv(path, mode="a", header=False, index=False)
AppendCsv(file, frame) == [exists |-> TRUE, lines |-> file.lines \o RowLines(frame)]

\* Variant: the append writes the header again.
SaveHistoryHeaderAgain(file, frame) ==
    [exists |-> TRUE, lines |-> file.lines \o <<HeaderLine>> \o RowLines(frame)]

\* Lines 122-127.
SaveHistory(file, frame) ==
    IF file.exists THEN AppendCsv(file, frame) ELSE WriteCsv(frame)

(***************************************************************************)
(* The script, one step per stage.                                         *)
(***************************************************************************)
Init ==
    /\ pc = "start"
    /\ run = 1
    /\ remaining = 0
    /\ docs = <<>>
    /\ all_data = <<>>
    /\ df = <<>>
    /\ output_csv = NoFile
    /\ history = NoFile
    /\ before = [output_csv |-> NoFile, history |-> NoFile]

Min(a, b) == IF a < b THEN a ELSE b

\* The names of a directory are distinct.
Visited == {docs[i].name : i \in 1..Len(docs)}

\* Lines 18-25: the folder check and os.listdir.
StartRun(Names) ==
    /\ pc = "start"
    /\ \E exists \in BOOLEAN, n \in 0..Min(MaxFiles, Cardinality(Names)) :
          /\ pc' = IF ~exists THEN "no_folder" ELSE IF n = 0 THEN "no_files" ELSE "loop"
          /\ remaining' = IF exists THEN n ELSE 0
    /\ UNCHANGED <<run, docs, all_data, df, output_csv, history, before>>

\* Lines 26-57: one iteration of the files loop, its try/except included.
ProcessFile(Names, Pages) ==
    /\ pc = "loop"
    /\ remaining > 0
    /\ \E name \in Names \ Visited, pages \in Pages :
          /\ docs' = Append(docs, [name |-> name, pages |-> pages])
          /\ all_data' = all_data \o FileRows(name, pages)
    /\ remaining' = remaining - 1
    /\ UNCHANGED <<pc, run, df, output_csv, history, before>>

\* Lines 59-65 and 191-192: the loop is over; the frame is built or there is no data.
BuildFrame ==
    /\ pc = "loop"
    /\ remaining = 0
    /\ IF all_data = <<>> THEN pc' = "no_data" /\ df' = df
       ELSE IF FrameFault(all_data) THEN pc' = "fault" /\ df' = df
       ELSE pc' = "clean" /\ df' = DataFrame(all_data)
    /\ UNCHANGED <<run, remaining, docs, all_data, output_csv, history, before>>

\* Variant: no exit on an empty frame.
CleanWithoutExit ==
    /\ pc = "clean"
    /\ df' = CleanFrame(df)
    /\ pc' = "derive"
    /\ UNCHANGED <<run, remaining, docs, all_data, output_csv, history, before>>

\* Lines 68-84: typing, dropping, and the exit on an empty frame.
Clean ==
    /\ pc = "clean"
    /\ df' = CleanFrame(df)
    /\ pc' = IF df' = <<>> THEN "empty" ELSE "derive"
    /\ UNCHANGED <<run, remaining, docs, all_data, output_csv, history, before>>

\* Lines 87-113: sorting, Day and the returns.
Derive ==
    /\ pc = "derive"
    /\ df' = Derived(df)
    /\ pc' = "persist"
    /\ UNCHANGED <<run, remaining, docs, all_data, output_csv, history, before>>

\* Lines 118-127: output.csv is overwritten, stock_history.csv created or appended.
Persist ==
    /\ pc = "persist"
    /\ output_csv' = WriteCsv(df)
    /\ history' = SaveHistory(history, df)
    /\ pc' = "saved"
    /\ UNCHANGED <<run, remaining, docs, all_data, df, before>>

Ended == pc \in {"no_folder", "no_files", "no_data", "fault", "empty", "saved"}

\* The script is started again: module state is fresh, the files stay.
NewRun ==
    /\ Ended
    /\ run < MaxRuns
    /\ run' = run + 1
    /\ pc' = "start"
    /\ remaining' = 0
    /\ docs' = <<>>
    /\ all_data' = <<>>
    /\ df' = <<>>
    /\ before' = [output_csv |-> output_csv, history |-> history]
    /\ UNCHANGED <<output_csv, history>>

(***************************************************************************)
(* Inputs: the directory entries and the tables the extractor returns.     *)
(***************************************************************************)
HeaderRow ==
    <<<<"S", "/", "N">>,
      <<"S", "Y", "M", "B", "O", "L">>,
      <<"P", "_", "C", "L", "O", "S", "E">>,
      <<"O", "P", "E", "N">>,
      <<"H", "I", "G", "H">>,
      <<"L", "O", "W">>,
      <<"C", "L", "O", "S", "E">>,
      <<"C", "H", "A", "N", "G", "E">>,
      <<"%">>,
      <<"D", "E", "A", "L", "S">>,
      <<"V", "O", "L", "U", "M", "E">>,
      <<"V", "A", "L", "U", "E">>,
      <<"V", "W", "A", "P">>>>

Filler == <<"1">>

\* A data row of the price list: 13 cells in the order of columns.
MkRow(sn, symbol, close, volume) ==
    <<sn, symbol, Filler, Filler, Filler, Filler, close, Filler, Filler, Filler, volume,
      Filler, Filler>>

ABC == <<"A", "B", "C">>

XYZ == <<"X", "Y", "Z">>

FooterText == <<"N", "I", "G", "E", "R", "I", "A", "N", " ", "E", "X", "C", "H", "A", "N", "G", "E", " ", "L", "T", "D">>

SeqsUpTo(S, n) == UNION {[1..k -> S] : k \in 0..n}

\* The pages of one document: at most MaxPages, each with no table, a raising
\* extract_table, or a table of the header row and at most MaxRows data rows.
PagesOver(Rows, Faults) ==
    SeqsUpTo({NoTable} \cup Faults
                 \cup {Table(<<HeaderRow>> \o rs) : rs \in SeqsUpTo(Rows, MaxRows)},
             MaxPages)

May20 == <<"DAILY_PRICE_LIST", "_", "May", "_", "20", "_", "2024", ".pdf">>

May21 == <<"DAILY_PRICE_LIST", "_", "May", "_", "21", "_", "2024", ".pdf">>

\* No prefix: the same date as May20.
May20Bare == <<"May", "_", "20", "_", "2024", ".pdf">>

Nov3 == <<"DAILY_PRICE_LIST", "_", "November", "_", "3", "_", "2023", ".pdf">>

\* Names that fail "%B_%d_%Y".
June31 == <<"DAILY_PRICE_LIST", "_", "June", "_", "31", "_", "2024", ".pdf">>

ShortYear == <<"DAILY_PRICE_LIST", "_", "May", "_", "20", "_", "24", ".pdf">>

Trailing == <<"DAILY_PRICE_LIST", "_", "May", "_", "20", "_", "2024", "_", "v2", ".pdf">>

\* Not a PDF.
Notes == <<"notes", ".txt">>

\* Well-formed rows.
Abc10 == MkRow(Filler, ABC, <<"1", "0", ".", "0", "0">>, <<"1", ",", "0", "0", "0">>)

Abc11 == MkRow(Filler, ABC, <<"1", "1", ".", "0", "0">>, <<"2", ",", "0", "0", "0">>)

Abc0 == MkRow(Filler, ABC, <<"0">>, <<"3", "0">>)

Xyz5 == MkRow(Filler, XYZ, <<"5">>, <<"4", "0", "0">>)

\* Footer rows whose other cells are well-formed: the marker as a whole cell, and
\* the marker inside a longer cell.
FooterExact == MkRow(Marker, ABC, <<"1", "1", ".", "0", "0">>, <<"2", ",", "0", "0", "0">>)

FooterLong == MkRow(FooterText, XYZ, <<"5">>, <<"4", "0", "0">>)

\* Rows with one defective cell.
BlankSymbol == MkRow(Filler, <<" ", " ">>, <<"1", "0", ".", "0", "0">>, <<"1", ",", "0", "0", "0">>)

NoneSymbol == MkRow(Filler, None, <<"1", "0", ".", "0", "0">>, <<"1", ",", "0", "0", "0">>)

BadClose == MkRow(Filler, ABC, <<"N", "/", "A">>, <<"1", ",", "0", "0", "0">>)

CommaClose == MkRow(Filler, ABC, <<"1", ",", "0", "0", "0", ".", "5", "0">>, <<"1", ",", "0", "0", "0">>)

EmptyVolume == MkRow(Filler, ABC, <<"1", "0", ".", "0", "0">>, <<>>)

NegVolume == MkRow(Filler, ABC, <<"1", "0", ".", "0", "0">>, <<"-", "5">>)

FracVolume == MkRow(Filler, XYZ, <<"5">>, <<"1", ".", "5">>)

\* Rows with a cell too few and a cell too many.
ShortRow == SubSeq(Abc10, 1, Len(Abc10) - 1)

LongRow == Append(Abc10, Filler)

(***************************************************************************)
(* Specifications.  Each draws the directory entries and the tables from   *)
(* its own bounded sets; the script is the same in all of them.            *)
(***************************************************************************)
Script(Names, Pages) ==
    \/ StartRun(Names)
    \/ ProcessFile(Names, Pages)
    \/ BuildFrame
    \/ Clean
    \/ Derive
    \/ Persist

\* Extraction: valid and invalid names, footer rows, raising pages.
ExtractNames == {May20, May21, June31, Trailing, Notes}

ExtractPages == PagesOver({Abc10, FooterExact, FooterLong}, {Raises})

NextExtract == Script(ExtractNames, ExtractPages)

SpecExtract == Init /\ [][NextExtract]_vars

\* Cleaning: rows with one defective cell, rows of 12 and 14 cells, two names of
\* the same date.
CleanNames == {May20, May20Bare, May21}

CleanPages ==
    PagesOver({Abc10, NegVolume, FracVolume, BlankSymbol, NoneSymbol, BadClose,
               CommaClose, EmptyVolume, ShortRow, LongRow}, {})

NextClean == Script(CleanNames, CleanPages)

SpecClean == Init /\ [][NextClean]_vars

\* Derivation: well-formed rows of two symbols, a zero close among them.
DeriveNames == {May20, May21, Nov3}

DerivePages == PagesOver({Abc10, Abc11, Abc0, Xyz5}, {})

NextDerive == Script(DeriveNames, DerivePages)

SpecDerive == Init /\ [][NextDerive]_vars

\* Persistence: the script run several times over the same two files.
RunsNames == {May20, May21, June31}

RunsPages == PagesOver({Abc10, BlankSymbol}, {Raises})

NextRuns == Script(RunsNames, RunsPages) \/ NewRun

SpecRuns == Init /\ [][NextRuns]_vars

(***************************************************************************)
(* Vocabulary of the properties.                                           *)
(***************************************************************************)
\* The text contains the marker, as a whole or as a part.
ContainsMarker(cell) ==
    \E k \in 1..(Len(cell) - Len(Marker) + 1) :
        SubSeq(cell, k, k + Len(Marker) - 1) = Marker

\* Some cell of the extracted row (the date cell aside) contains the marker.
IsFooterRow(row) == \E i \in 1..(Len(row) - 1) : ContainsMarker(row[i])

\* A document is valid when its name is a PDF name that matches the date pattern
\* and none of its pages raises.
ValidDoc(d) ==
    /\ EndsWithPdf(d.name)
    /\ StrptimeOk(file_date_str(d.name))
    /\ \A k \in 1..Len(d.pages) : d.pages[k].kind # "raise"

\* The data rows of the tables of a document, in page order, each with the date.
RECURSIVE Stamped(_, _)
Stamped(pages, date) ==
    IF pages = <<>> THEN <<>>
    ELSE LET rs == Head(pages).rows
         IN  [i \in 1..(Len(rs) - 1) |-> Append(rs[i + 1], date)]
                 \o Stamped(Tail(pages), date)

\* The rows read from a raising document before the page that raised.
ReadBeforeFailure(d) ==
    LET first == CHOOSE k \in 1..Len(d.pages) :
                     /\ d.pages[k].kind = "raise"
                     /\ \A j \in 1..(k - 1) : d.pages[j].kind # "raise"
    IN  Stamped(SubSeq(d.pages, 1, first - 1), <<>>)

\* Rows of the valid documents visited so far, footer rows (exact cell) aside.
RECURSIVE RowsOfValid(_)
RowsOfValid(ds) ==
    IF ds = <<>> THEN <<>>
    ELSE LET d == ds[Len(ds)]
         IN  RowsOfValid(SubSeq(ds, 1, Len(ds) - 1))
                 \o (IF ValidDoc(d)
                     THEN SelectSeq(Stamped(d.pages, file_date(file_date_str(d.name))),
                                    NotFooter)
                     ELSE <<>>)

(***************************************************************************)
(* C1.  A row one of whose cells contains the footer marker "NIGERIAN      *)
(* EXCHANGE", even as part of a longer text, is never in the cleaned       *)
(* corpus: once the frame is cleaned, no accumulated row that contains     *)
(* the marker has passed the cleaning.                                     *)
(***************************************************************************)
C1_FooterNeverClean ==
    pc = "derive" =>
        \A i \in 1..Len(all_data) :
            IsFooterRow(all_data[i]) => ~Kept(Typed(PadRow(all_data[i])))

(***************************************************************************)
(* C2.  A document whose name fails the date pattern, or one of whose      *)
(* pages raises, adds no row (not even those read before the failure),     *)
(* and the rows of every valid document visited before or after it are     *)
(* all in all_data, in order; the loop goes on to the last file.           *)
(***************************************************************************)
C2_InvalidSkipped ==
    /\ all_data = RowsOfValid(docs)
    /\ pc = "loop" => remaining + Len(docs) <= MaxFiles
    /\ pc \in {"clean", "derive", "persist", "saved", "empty", "no_data", "fault"}
           => remaining = 0

\* A document that raised after rows had been read was skipped, the rows of the
\* valid document visited before or after it are there, and the run went on.
C2_Witness ==
    /\ Len(docs) = 2
    /\ \E i, j \in 1..2 :
          /\ i # j
          /\ ~ValidDoc(docs[i])
          /\ StrptimeOk(file_date_str(docs[i].name))
          /\ ReadBeforeFailure(docs[i]) # <<>>
          /\ ValidDoc(docs[j])
    /\ all_data # <<>>
    /\ pc = "saved"

(***************************************************************************)
(* Well-formed raw rows, stated on the texts.                              *)
(***************************************************************************)
\* A decimal literal, possibly signed and surrounded by blanks: digits with at
\* most one point.
IsDecimalText(c) ==
    LET s == RStrip(LStrip(c))
        u == IF s # <<>> /\ Head(s) = "-" THEN Tail(s) ELSE s
    IN  /\ \A i \in 1..Len(u) : u[i] \in Digits \cup {"."}
        /\ \E i \in 1..Len(u) : u[i] \in Digits
        /\ Cardinality({i \in 1..Len(u) : u[i] = "."}) <= 1

\* An accumulated row is well-formed when it has all 14 cells, a symbol that is
\* a non-blank text, and close and volume texts that are decimal literals (the
\* volume once its commas are removed).
WellFormedRaw(row) ==
    /\ Len(row) = NumColumns
    /\ row[Col("Symbol")] # None
    /\ ~IsBlank(row[Col("Symbol")])
    /\ row[Col("Close")] # None
    /\ IsDecimalText(row[Col("Close")])
    /\ row[Col("Volume")] # None
    /\ IsDecimalText(RemoveChar(row[Col("Volume")], ","))

WellFormedRows == SelectSeq(all_data, WellFormedRaw)

TypedRow(row) == Typed(PadRow(row))

Count(S) == Cardinality(S)

FieldsPresent(r) ==
    /\ r.Symbol # None
    /\ ~IsBlank(r.Symbol)
    /\ ~IsNaN(r.Close)
    /\ ~IsNaN(r.Volume)
    /\ r.Date # NaT

IsNonNegativeInteger(x) == x[2] = 1 /\ x[1] >= 0

(***************************************************************************)
(* C3, as stated.  Every row of the cleaned corpus has a non-blank symbol, *)
(* a numeric close, a volume that is a non-negative integer and a date;    *)
(* an accumulated row whose typed form is not so is not in the corpus.     *)
(***************************************************************************)
C3_VolumeNonNegativeInteger ==
    pc = "derive" =>
        /\ \A j \in 1..Len(df) :
              FieldsPresent(df[j]) /\ IsNonNegativeInteger(df[j].Volume)
        /\ \A i \in 1..Len(all_data) :
              ~(FieldsPresent(TypedRow(all_data[i]))
                    /\ IsNonNegativeInteger(TypedRow(all_data[i]).Volume))
                  => \A j \in 1..Len(df) : df[j] # TypedRow(all_data[i])

(***************************************************************************)
(* C3, amended.  Every row of the cleaned corpus has a non-blank symbol, a *)
(* numeric close, a numeric volume (parsed with its commas removed; it may *)
(* be negative or fractional) and a date; the cleaned corpus is exactly    *)
(* the well-formed accumulated rows, typed, in order: a row with an empty, *)
(* blank or non-numeric symbol, close or volume cell is dropped.           *)
(***************************************************************************)
C3_CleanRowsNumeric ==
    pc = "derive" =>
        /\ \A j \in 1..Len(df) : FieldsPresent(df[j])
        /\ df = [k \in 1..Len(WellFormedRows) |-> TypedRow(WellFormedRows[k])]

\* A volume with a thousands comma was parsed, a negative volume was kept and a
\* defective row was dropped.
C3_Witness ==
    /\ pc = "derive"
    /\ \E j \in 1..Len(df) : df[j].Volume = Num(1000)
    /\ \E j \in 1..Len(df) : df[j].Volume[1] < 0
    /\ \E i \in 1..Len(all_data) : ~WellFormedRaw(all_data[i])

(***************************************************************************)
(* C9.  A run in an existing folder ends with one of the no-data messages  *)
(* or with both files written; it never ends in an uncaught fault,         *)
(* whatever the cell counts of the extracted rows.                         *)
(***************************************************************************)
C9_NoUncaughtFault ==
    (Ended /\ pc # "no_folder") => pc \in {"no_files", "no_data", "empty", "saved"}

(***************************************************************************)
(* C10, as stated.  The cleaned corpus never holds two rows equal in       *)
(* symbol, close, volume and date.                                         *)
(***************************************************************************)
C10_Deduplicated ==
    pc = "derive" =>
        \A j, k \in 1..Len(df) : j # k => df[j] # df[k]

(***************************************************************************)
(* C10, amended.  The cleaned corpus is not deduplicated: every            *)
(* well-formed accumulated row is in it once per occurrence, so equal rows *)
(* from two pages, or from two documents of the same date, are all kept.   *)
(***************************************************************************)
C10_OccurrencesKept ==
    pc = "derive" =>
        \A i \in 1..Len(all_data) :
            WellFormedRaw(all_data[i]) =>
                Count({j \in 1..Len(df) : df[j] = TypedRow(all_data[i])})
                    = Count({k \in 1..Len(all_data) :
                                 /\ WellFormedRaw(all_data[k])
                                 /\ TypedRow(all_data[k]) = TypedRow(all_data[i])})

\* The same row came from two documents whose names give the same date, and the
\* cleaned corpus holds it twice.
C10_Witness ==
    /\ pc = "derive"
    /\ Len(docs) = 2
    /\ docs[1].name # docs[2].name
    /\ file_date(file_date_str(docs[1].name)) = file_date(file_date_str(docs[2].name))
    /\ Len(df) = 2
    /\ df[1] = df[2]

(***************************************************************************)
(* The derived corpus, read per symbol.                                    *)
(***************************************************************************)
Symbols == {all_data[i][Col("Symbol")] : i \in {k \in 1..Len(all_data) : WellFormedRaw(all_data[k])}}

\* The rows of one symbol, in the order of the derived corpus.
Series(s) == SelectSeq(df, LAMBDA r : r.Symbol = s)

\* How many cleaned rows the symbol has.
CleanCount(s) ==
    Count({i \in 1..Len(all_data) :
               WellFormedRaw(all_data[i]) /\ all_data[i][Col("Symbol")] = s})

\* The product of the growth factors of rows 1..k of a series.
RECURSIVE GrowthChain(_, _)
GrowthChain(series, k) ==
    IF k = 0 THEN Num(1) ELSE Mul(GrowthChain(series, k - 1), series[k].Growth)

Zero == Num(0)

PriorClosesNonZero(series, k) == \A m \in 1..(k - 1) : series[m].Close # Zero

C5_FirstRowOfSymbol ==
    pc = "persist" =>
        \A s \in Symbols :
            /\ Series(s) # <<>>
            /\ IsNaN(Series(s)[1].Close_pct_change)
            /\ Series(s)[1].Growth = Num(1)
            /\ Series(s)[1].Cumulative_Return = Zero
            /\ Series(s)[1].Day = 1

\* The first row of the second symbol comes after a row of the first symbol with
\* another close, whose own growth is not 1.
C5_Witness ==
    /\ pc = "persist"
    /\ \E j \in 2..Len(df) :
          /\ df[j].Symbol # df[j - 1].Symbol
          /\ df[j].Close # df[j - 1].Close
          /\ df[j - 1].Growth # Num(1)
          /\ df[j].Day = 1

(***************************************************************************)
(* C6, as stated.  For every symbol and every row k of its series, the     *)
(* day-1 close times the product of the growth factors of rows 1..k is the *)
(* close of row k.                                                         *)
(***************************************************************************)
C6_RoundTrip ==
    pc = "persist" =>
        \A s \in Symbols :
            \A k \in 1..Len(Series(s)) :
                Mul(Series(s)[1].Close, GrowthChain(Series(s), k)) = Series(s)[k].Close

(***************************************************************************)
(* C6, amended.  For every symbol and every row k of its series whose      *)
(* earlier rows 1..k-1 all have a non-zero close, the day-1 close times    *)
(* the product of the growth factors of rows 1..k of that symbol is the    *)
(* close of row k, and for k > 1 the cumulative return of row k is         *)
(* (close_k / close_1 - 1) * 100.                                          *)
(***************************************************************************)
C6_RoundTripNonZero ==
    pc = "persist" =>
        \A s \in Symbols :
            \A k \in 1..Len(Series(s)) :
                PriorClosesNonZero(Series(s), k) =>
                    /\ Mul(Series(s)[1].Close, GrowthChain(Series(s), k)) = Series(s)[k].Close
                    /\ k > 1 =>
                          Series(s)[k].Cumulative_Return
                              = Mul(Sub(Div(Series(s)[k].Close, Series(s)[1].Close), Num(1)),
                                    Num(100))

\* Of two symbols, one has a third row after two non-zero closes that differ,
\* with a cumulative return other than 0.
C6_Witness ==
    /\ pc = "persist"
    /\ Cardinality(Symbols) = 2
    /\ \E s \in Symbols :
          /\ Len(Series(s)) = 3
          /\ PriorClosesNonZero(Series(s), 3)
          /\ Series(s)[1].Close # Series(s)[2].Close
          /\ Series(s)[3].Cumulative_Return # Zero

(***************************************************************************)
(* The files, read across runs.                                            *)
(***************************************************************************)
HeaderLines(file) == {k \in 1..Len(file.lines) : file.lines[k].kind = "header"}

\* The run found no well-formed row.
NoValidRows == WellFormedRows = <<>>

(***************************************************************************)
(* C7.  From no history file, after any runs: the history file, once it    *)
(* exists, is one header line followed by row lines; a run that saves a    *)
(* corpus leaves what was there as a prefix (or writes the header, if      *)
(* there was no file) and adds exactly the rows of its corpus, nothing     *)
(* being removed however often a row recurs; any other run leaves the      *)
(* file as it was.                                                         *)
(***************************************************************************)
C7_HistoryAppendOnly ==
    /\ history.exists => HeaderLines(history) = {1}
    /\ ~history.exists => history.lines = <<>>
    /\ pc = "saved" =>
          /\ df # <<>>
          /\ history.exists
          /\ history.lines
                 = (IF before.history.exists THEN before.history.lines ELSE <<HeaderLine>>)
                       \o RowLines(df)
    /\ pc # "saved" => history = before.history

\* A later run appended to an existing history rows that were already in it.
C7_Witness ==
    /\ pc = "saved"
    /\ run = 2
    /\ before.history.exists
    /\ Len(history.lines) > Len(before.history.lines)
    /\ \E k \in 2..Len(before.history.lines) :
          history.lines[Len(history.lines)] = before.history.lines[k]

(***************************************************************************)
(* C8.  A run in an existing folder that ends with no valid row (no        *)
(* files, no valid document, every row dropped) leaves output.csv and      *)
(* stock_history.csv as they were when it started.                         *)
(***************************************************************************)
C8_NoDataNoWrite ==
    (Ended /\ pc # "no_folder" /\ NoValidRows) =>
        /\ output_csv = before.output_csv
        /\ history = before.history

\* With both files on disk from an earlier run, a run whose rows were all
\* dropped by the cleaning has ended.
C8_Witness ==
    /\ Ended
    /\ pc = "empty"
    /\ all_data # <<>>
    /\ NoValidRows
    /\ before.history.exists
    /\ before.output_csv.exists
    /\ output_csv = before.output_csv

====
